---- MODULE Spec2Model ----
(***************************************************************************)
(* pathmaster: get_executable_path() of include/pathmaster/pathmaster.hpp  *)
(* and the self-test main() of tests/pathmaster_test.cpp.                  *)
(*                                                                         *)
(* A path is a sequence of one-character strings, so that buffers, C       *)
(* string termination, truncation and canonicalization are computed on     *)
(* characters.  The operating system (the executable path it reports, the  *)
(* filesystem, the heap) is the environment; each invocation of            *)
(* get_executable_path is a thread that walks through the statements of    *)
(* the platform branch the preprocessor selected.                          *)
(***************************************************************************)
EXTENDS Integers, Sequences, FiniteSets, TLC

(***************************************************************************)
(* Bounds of the model.                                                    *)
(***************************************************************************)
NumThreads == 2

MaxEnvChanges == 1

MaxSymlinkHops == 2

(***************************************************************************)
(* Program constants.                                                      *)
(***************************************************************************)
\* sys/syslimits.h PATH_MAX, the initial size of the macOS buffer.
PATH_MAX == 1024

\* The length of the Windows buffer, in wchar_t.
WinBufferLen == 32767

\* sizeof(wchar_t) on Windows.
WCharBytes == 2

\* <cstdlib> EXIT_FAILURE.
EXIT_FAILURE == 1

(***************************************************************************)
(* Characters and strings.                                                 *)
(***************************************************************************)
NUL == "NUL"

Slash == "/"

Backslash == "\\"

Rep(c, n) == [i \in 1..n |-> c]

Range(s) == {s[i] : i \in DOMAIN s}

\* "pathmaster_test", the literal main() compares the file name with.
PathmasterTest == <<"p","a","t","h","m","a","s","t","e","r","_","t","e","s","t">>

PathmasterTestExe == PathmasterTest \o <<".","e","x","e">>

OtherName == <<"x">>

OtherNameExe == <<"x",".","e","x","e">>

LinkName == <<"l","n">>

BinDir == <<"b">>

\* A directory name long enough that five of them exceed PATH_MAX.
LongDir == Rep("d", PATH_MAX \div 5)

Dot == <<".">>

DotDot == <<".", ".">>

(***************************************************************************)
(* std::filesystem::path: splitting a native string in its components and  *)
(* building it back.  style is "posix" or "windows".                       *)
(***************************************************************************)
Sep(style) == IF style = "windows" THEN Backslash ELSE Slash

\* The components between the separators of s, the empty ones included.
Segments(s, sep) ==
    LET B == {0} \cup {i \in 1..Len(s) : s[i] = sep} \cup {Len(s) + 1}
        n == Cardinality(B) - 1
        nth(k) == CHOOSE b \in B : Cardinality({q \in B : q < b}) = k
    IN  [k \in 1..n |-> SubSeq(s, nth(k - 1) + 1, nth(k) - 1)]

HasRoot(style, s) ==
    IF style = "windows"
    THEN Len(s) >= 3 /\ s[2] = ":" /\ s[3] = Backslash
    ELSE Len(s) >= 1 /\ s[1] = Slash

RootOf(style, s) == IF style = "windows" THEN SubSeq(s, 1, 3) ELSE <<Slash>>

\* [abs, root, segs] of the native string s.
ParsePath(style, s) ==
    IF HasRoot(style, s)
    THEN [abs |-> TRUE, root |-> RootOf(style, s),
          segs |-> Segments(SubSeq(s, Len(RootOf(style, s)) + 1, Len(s)), Sep(style))]
    ELSE [abs |-> FALSE, root |-> <<>>, segs |-> Segments(s, Sep(style))]

RECURSIVE JoinSegs(_, _)
JoinSegs(segs, sep) ==
    IF segs = <<>> THEN <<>>
    ELSE IF Len(segs) = 1 THEN segs[1]
    ELSE segs[1] \o <<sep>> \o JoinSegs(Tail(segs), sep)

\* The native string of the absolute path root/segs.
MakePath(style, root, segs) == root \o JoinSegs(segs, Sep(style))

\* path::filename(): the last component.
Filename(style, s) ==
    LET segs == ParsePath(style, s).segs
    IN  IF segs = <<>> THEN <<>> ELSE segs[Len(segs)]

\* path::is_absolute().
IsAbsolute(style, s) == HasRoot(style, s)

\* Whether s has a "." or ".." component (or an empty one: a doubled or
\* trailing separator).
HasDotSegments(style, s) ==
    LET segs == ParsePath(style, s).segs
    IN  \E i \in DOMAIN segs : segs[i] \in {Dot, DotDot, <<>>}

(***************************************************************************)
(* The filesystem: a map from the component sequence of each node to       *)
(* a directory, a regular file or a symbolic link with its target string.   *)
(***************************************************************************)
Dir == [type |-> "dir", target |-> <<>>]

File == [type |-> "file", target |-> <<>>]

Link(target) == [type |-> "link", target |-> target]

LongDirs(k) == [i \in 1..k |-> LongDir]

PosixNodes ==
    (<<BinDir>> :> Dir) @@
    (<<BinDir, PathmasterTest>> :> File) @@
    (<<BinDir, OtherName>> :> File) @@
    (<<BinDir, LinkName>> :> Link(PathmasterTest)) @@
    [p \in {LongDirs(k) : k \in 1..5} |-> Dir] @@
    (Append(LongDirs(5), PathmasterTest) :> File)

WindowsNodes ==
    (<<BinDir>> :> Dir) @@
    (<<BinDir, PathmasterTestExe>> :> File) @@
    (<<BinDir, OtherNameExe>> :> File)

AllNodes(style) == IF style = "windows" THEN WindowsNodes ELSE PosixNodes

\* The filesystem with the regular files removed or in place.
Fs(style, removed) ==
    LET all == AllNodes(style)
    IN  IF removed
        THEN [p \in {q \in DOMAIN all : all[q].type # "file"} |-> all[p]]
        ELSE all

\* The current directory of the process.
Cwd == <<BinDir>>

PosixRoot == <<Slash>>

WindowsRoot == <<"C", ":", Backslash>>

StyleRoot(style) == IF style = "windows" THEN WindowsRoot ELSE PosixRoot

(***************************************************************************)
(* std::filesystem::canonical: every component is looked up, "." and ".."  *)
(* are eliminated, symbolic links are followed, and a missing component    *)
(* is an error.  The result is [ok, path] or [ok, err].                    *)
(***************************************************************************)
Parent(cur) == IF cur = <<>> THEN <<>> ELSE SubSeq(cur, 1, Len(cur) - 1)

RECURSIVE Resolve(_, _, _, _, _)
Resolve(fs, style, cur, rest, hops) ==
    IF rest = <<>> THEN [ok |-> TRUE, segs |-> cur]
    ELSE LET h == Head(rest)
             t == Tail(rest)
             n == Append(cur, h)
         IN  IF h \in {<<>>, Dot} THEN Resolve(fs, style, cur, t, hops)
             ELSE IF h = DotDot THEN Resolve(fs, style, Parent(cur), t, hops)
             ELSE IF n \notin DOMAIN fs THEN [ok |-> FALSE, err |-> "ENOENT"]
             ELSE IF fs[n].type = "link"
                  THEN IF hops = 0 THEN [ok |-> FALSE, err |-> "ELOOP"]
                       ELSE LET tp == ParsePath(style, fs[n].target)
                            IN  Resolve(fs, style, IF tp.abs THEN <<>> ELSE cur,
                                        tp.segs \o t, hops - 1)
             ELSE IF fs[n].type = "file" /\ t # <<>>
                  THEN [ok |-> FALSE, err |-> "ENOTDIR"]
             ELSE Resolve(fs, style, n, t, hops)

Canonical(fs, style, s) ==
    IF s = <<>> \/ NUL \in Range(s) THEN [ok |-> FALSE, err |-> "ENOENT"]
    ELSE LET p == ParsePath(style, s)
             r == Resolve(fs, style, IF p.abs THEN <<>> ELSE Cwd, p.segs, MaxSymlinkHops)
         IN  IF r.ok
             THEN [ok |-> TRUE, path |-> MakePath(style, StyleRoot(style), r.segs)]
             ELSE r

\* Whether the absolute path s names a node of fs, component by component.
ExistsIn(fs, style, s) ==
    LET p == ParsePath(style, s)
    IN  p.abs /\ (p.segs = <<>> \/ p.segs \in DOMAIN fs)

(***************************************************************************)
(* The platform branches: #if defined(__linux__) / #elif defined(__APPLE__)*)
(* / #elif defined(_WIN32) / #else.  A build is a set of predefined macros.*)
(***************************************************************************)
Branches == {"linux", "apple", "win32", "other"}

FlagSets == [linux : BOOLEAN, apple : BOOLEAN, win32 : BOOLEAN]

\* Mutant: the macOS branch under #if in the place of #elif.
BranchActiveNoElif(b, f) ==
    CASE b = "linux" -> f.linux
      [] b = "apple" -> f.apple
      [] b = "win32" -> ~f.linux /\ ~f.apple /\ f.win32
      [] b = "other" -> ~f.linux /\ ~f.apple /\ ~f.win32

\* Whether the preprocessor keeps the code of branch b under the macros f.
BranchActive(b, f) ==
    CASE b = "linux" -> f.linux
      [] b = "apple" -> ~f.linux /\ f.apple
      [] b = "win32" -> ~f.linux /\ ~f.apple /\ f.win32
      [] b = "other" -> ~f.linux /\ ~f.apple /\ ~f.win32

ActiveBranches(f) == {b \in Branches : BranchActive(b, f)}

\* The macro sets of the toolchains: a compiler predefines the macro of its
\* own target platform and no other.
Builds ==
    {f \in FlagSets : Cardinality({m \in {"linux", "apple", "win32"} : f[m]}) <= 1}

StyleOf(b) == IF b = "win32" THEN "windows" ELSE "posix"

(***************************************************************************)
(* The executable path the operating system reports, by the way the        *)
(* process was launched.                                                   *)
(***************************************************************************)
Launches(b) ==
    CASE b = "linux" -> 1..2
      [] b = "apple" -> 1..3
      [] b = "win32" -> 1..2
      [] b = "other" -> 1..1

OsPath(b, launch) ==
    CASE b = "linux" ->
            IF launch = 1 THEN MakePath("posix", PosixRoot, <<BinDir, PathmasterTest>>)
            ELSE MakePath("posix", PosixRoot, <<BinDir, OtherName>>)
      [] b = "apple" ->
            IF launch = 1 THEN MakePath("posix", PosixRoot, <<BinDir, Dot, OtherName>>)
            ELSE IF launch = 2 THEN JoinSegs(<<Dot, DotDot, BinDir, LinkName>>, Slash)
            ELSE MakePath("posix", PosixRoot, Append(LongDirs(5), PathmasterTest))
      [] b = "win32" ->
            IF launch = 1 THEN MakePath("windows", WindowsRoot, <<BinDir, PathmasterTestExe>>)
            ELSE MakePath("windows", WindowsRoot, <<BinDir, Dot, OtherNameExe>>)
      [] b = "other" -> <<>>

\* How the size _NSGetExecutablePath reports relates to the size needed.
ReportModes == {"exact", "zero", "short", "over"}

ReportedSize(mode, need) ==
    CASE mode = "exact" -> need
      [] mode = "zero" -> 0
      [] mode = "short" -> need - 1
      [] mode = "over" -> need + 4

\* The bytes the heap can still hand out: exhausted, or ample.
HeapLevels == {0, 100000}

(***************************************************************************)
(* The native primitives.                                                  *)
(***************************************************************************)
Min(a, b) == IF a <= b THEN a ELSE b

\* _NSGetExecutablePath(buf, &bufsize): copies the path and its terminator
\* when bufsize is large enough, else stores the size in bufsize and fails.
NSGetExecutablePath(path, bufsize, mode) ==
    IF bufsize < Len(path) + 1
    THEN [rc |-> -1, size |-> ReportedSize(mode, Len(path) + 1), write |-> <<>>]
    ELSE [rc |-> 0, size |-> bufsize, write |-> Append(path, NUL)]

\* GetModuleFileNameW(nullptr, buf, nSize): the length copied, without the
\* terminator; 0 on failure; nSize with a truncated string when it does not fit.
GetModuleFileNameW(path, nSize, ok) ==
    IF ~ok THEN [size |-> 0, write |-> <<>>]
    ELSE IF Len(path) < nSize THEN [size |-> Len(path), write |-> Append(path, NUL)]
    ELSE [size |-> nSize, write |-> Append(SubSeq(path, 1, nSize - 1), NUL)]

\* Whether the heap can hand out n bytes.
CanAlloc(heap, n) == n <= heap

(***************************************************************************)
(* std::vector as [size, data]: data is the prefix written so far, the     *)
(* elements after it are the zeros of the value-initialization.            *)
(***************************************************************************)
NoBuffer == [size |-> 0, data |-> <<>>]

NewBuffer(n) == [size |-> n, data |-> <<>>]

\* Mutant: the resize is left out.
ResizeOmitted(buf, n) == buf

\* buffer.resize(n).
Resize(buf, n) == [size |-> n, data |-> SubSeq(buf.data, 1, Min(Len(buf.data), n))]

\* What a write of w at buffer.data() leaves in the buffer.
WriteBuf(buf, w) ==
    IF w = <<>> THEN buf
    ELSE [size |-> buf.size, data |-> SubSeq(w, 1, Min(Len(w), buf.size))]

\* Whether a write of w runs past the end of the buffer.
Overruns(buf, w) == Len(w) > buf.size

FirstNul(data) ==
    LET Z == {i \in 1..Len(data) : data[i] = NUL}
    IN  IF Z = {} THEN Len(data) + 1
        ELSE CHOOSE i \in Z : \A j \in Z : i <= j

\* The C string at buffer.data(): the characters before the first zero.
CStr(buf) == SubSeq(buf.data, 1, FirstNul(buf.data) - 1)

\* Whether reading the C string at buffer.data() finds no zero in the buffer.
Unterminated(buf) == FirstNul(buf.data) > buf.size

\* std::filesystem::path(buffer.data(), size): the first n characters.
FirstChars(buf, n) ==
    [i \in 1..n |-> IF i <= Len(buf.data) THEN buf.data[i] ELSE NUL]

(***************************************************************************)
(* Exceptions and outcomes.  A message is the sequence of its pieces.      *)
(***************************************************************************)
Exception(type, what) == [type |-> type, what |-> what]

BadAlloc == Exception("bad_alloc", <<"std::bad_alloc">>)

FilesystemError(op, err) ==
    Exception("filesystem_error", <<"filesystem error: ", op, err>>)

\* PathMasterError(message): std::runtime_error("PathMasterError: " + message).
PathMasterError(message) ==
    Exception("PathMasterError", <<"PathMasterError: ">> \o message)

MsgLinux == "Failed to get the executable path on GNU/Linux: "

MsgAppleQuery == "Failed to get the executable path on MacOS after resizing the buffer"

MsgAppleCanon == "Failed to canonicalize the path on MacOS: "

MsgWinQuery == "Failed to get the executable path on Windows"

MsgWinCanon == "Failed to canonicalize the path on Windows: "

MsgUnsupported == "Unsupported platform"

\* Mutant: catch (const std::filesystem::filesystem_error &e).
CatchesFilesystemOnly(type) == type = "filesystem_error"

\* catch (const std::exception &e): every exception type of the model
\* derives from std::exception, PathMasterError included.
Catches(type) == type \in {"bad_alloc", "filesystem_error", "PathMasterError"}

\* The exception that leaves the try/catch of branch b when e is thrown in it.
Rethrown(b, e) ==
    IF ~Catches(e.type) THEN e
    ELSE CASE b = "linux" -> PathMasterError(<<MsgLinux>> \o e.what)
           [] b = "apple" -> PathMasterError(<<MsgAppleCanon>> \o e.what)
           [] b = "win32" -> PathMasterError(<<MsgWinCanon>> \o e.what)

Returned(value) == [kind |-> "returned", value |-> value, type |-> "", what |-> <<>>]

Threw(e) == [kind |-> "threw", value |-> <<>>, type |-> e.type, what |-> e.what]

NoOutcome == [kind |-> "none", value |-> <<>>, type |-> "", what |-> <<>>]

\* Mutant: std::filesystem::absolute in the place of canonical.
AbsoluteCall(fs, style, heap, s) ==
    LET a == IF HasRoot(style, s) THEN s
             ELSE MakePath(style, StyleRoot(style), Cwd) \o <<Sep(style)>> \o s
    IN  IF ~CanAlloc(heap, Len(a) + 1) THEN [ok |-> FALSE, exc |-> BadAlloc]
        ELSE [ok |-> TRUE, path |-> a]

\* std::filesystem::canonical as the code calls it: allocates the result.
CanonicalCall(fs, style, heap, s) ==
    LET c == Canonical(fs, style, s)
    IN  IF ~c.ok THEN [ok |-> FALSE, exc |-> FilesystemError("cannot make canonical path: ", c.err)]
        ELSE IF ~CanAlloc(heap, Len(c.path) + 1) THEN [ok |-> FALSE, exc |-> BadAlloc]
        ELSE [ok |-> TRUE, path |-> c.path]

\* The canonical() call of branch b on the characters s: the macOS and
\* Windows branches first make a std::filesystem::path of the buffer.
CanonicalOf(b, removed, heap, s) ==
    IF b # "linux"
       /\ ~CanAlloc(heap, (IF b = "win32" THEN WCharBytes ELSE 1) * (Len(s) + 1))
    THEN [ok |-> FALSE, exc |-> BadAlloc]
    ELSE CanonicalCall(Fs(StyleOf(b), removed), StyleOf(b), heap, s)

\* std::filesystem::read_symlink("/proc/self/exe").
ReadSymlink(path, ok, heap) ==
    IF ~ok THEN [ok |-> FALSE, exc |-> FilesystemError("read_symlink: ", "ENOENT")]
    ELSE IF ~CanAlloc(heap, Len(path) + 1) THEN [ok |-> FALSE, exc |-> BadAlloc]
    ELSE [ok |-> TRUE, path |-> path]

(***************************************************************************)
(* State.                                                                  *)
(***************************************************************************)
VARIABLES
    flags,       \* the predefined platform macros of the build
    launch,      \* how the process was launched: selects the OS-reported path
    reportMode,  \* the size _NSGetExecutablePath reports on failure
    exeRemoved,  \* the filesystem: whether the regular files are removed
    queryOK,     \* whether /proc/self/exe, GetModuleFileNameW answer
    heapFree,    \* the bytes the heap can hand out
    osEpoch,     \* history: changes of the OS-reported path and filesystem
    heapEpoch,   \* history: changes of the heap
    th,          \* the locals and the trace of each invocation
    buffers,     \* the std::vector buffer objects
    mainStatus   \* the self-test's main(), which runs invocation 1

vars == <<flags, launch, reportMode, exeRemoved, queryOK, heapFree,
          osEpoch, heapEpoch, th, buffers, mainStatus>>

Threads == 1..NumThreads

\* Mutant: one static buffer for every invocation.
SharedBuffer(t) == 1

\* The buffer object of invocation t: a local of the invocation.
BufferOf(t) == t

\* The branch compiled into the build (the only one, see ActiveBranches).
TheBranch == CHOOSE b \in Branches : b \in ActiveBranches(flags)

ThePath == OsPath(TheBranch, launch)

InitThread ==
    [pc |-> "call", size |-> 0, rc |-> 0, calls |-> 0, resizes |-> 0,
     canons |-> 0, rc1 |-> 0, reported |-> 0, resizedTo |-> 0, bufLen |-> 0,
     raw |-> <<>>, failed |-> "none", oob |-> FALSE, badRead |-> FALSE,
     seenRemoved |-> FALSE, os0 |-> 0, heap0 |-> 0, conc |-> FALSE,
     outcome |-> NoOutcome]

\* The size _NSGetExecutablePath reports matters only for the path that does
\* not fit PATH_MAX (launch 3); the other launches never see a failure.
Init ==
    /\ flags \in Builds
    /\ launch \in Launches(CHOOSE b \in Branches : b \in ActiveBranches(flags))
    /\ reportMode \in IF BranchActive("apple", flags) /\ launch = 3
                      THEN ReportModes ELSE {"exact"}
    /\ exeRemoved = FALSE
    /\ queryOK = TRUE
    /\ heapFree = 100000
    /\ osEpoch = 0
    /\ heapEpoch = 0
    /\ th = [t \in Threads |-> InitThread]
    /\ buffers = [t \in Threads |-> NoBuffer]
    /\ mainStatus = [state |-> "running", code |-> 0]

(***************************************************************************)
(* The environment.                                                        *)
(***************************************************************************)
CanChange == osEpoch + heapEpoch < MaxEnvChanges

\* The executable is removed from the filesystem, or put back.
FsChange ==
    /\ CanChange
    /\ exeRemoved' = ~exeRemoved
    /\ osEpoch' = osEpoch + 1
    /\ UNCHANGED <<flags, launch, reportMode, queryOK, heapFree, heapEpoch,
                   th, buffers, mainStatus>>

\* The OS query of the Linux and Windows branches starts or stops failing.
QueryChange ==
    /\ CanChange
    /\ TheBranch \in {"linux", "win32"}
    /\ queryOK' = ~queryOK
    /\ osEpoch' = osEpoch + 1
    /\ UNCHANGED <<flags, launch, reportMode, exeRemoved, heapFree, heapEpoch,
                   th, buffers, mainStatus>>

\* The rest of the process exhausts the heap, or frees it.
HeapChange ==
    /\ CanChange
    /\ heapFree' \in HeapLevels \ {heapFree}
    /\ heapEpoch' = heapEpoch + 1
    /\ UNCHANGED <<flags, launch, reportMode, exeRemoved, queryOK, osEpoch,
                   th, buffers, mainStatus>>

(***************************************************************************)
(* get_executable_path(), statement by statement.                          *)
(***************************************************************************)
\* Whether an invocation other than t is between its first and last statement.
OthersRunning(t) == \E u \in Threads \ {t} : th[u].pc \notin {"call", "done"}

\* The first statement of invocation t notes the environment it starts in.
Started(t) ==
    [th[t] EXCEPT !.os0 = osEpoch, !.heap0 = heapEpoch, !.conc = OthersRunning(t)]

\* The invocation ends with outcome o.
Ended(r, o) ==
    [r EXCEPT !.pc = "done", !.outcome = o]

\* The exception e is thrown in the try block of branch b.
Raised(r, b, e, step) == Ended([r EXCEPT !.failed = step], Threw(Rethrown(b, e)))

EnvUnchanged ==
    UNCHANGED <<flags, launch, reportMode, exeRemoved, queryOK, heapFree,
                osEpoch, heapEpoch>>

\* Line 55, the inner call: std::filesystem::read_symlink("/proc/self/exe").
LinuxReadSymlink(t) ==
    /\ "linux" \in ActiveBranches(flags)
    /\ th[t].pc = "call"
    /\ LET r == [Started(t) EXCEPT !.calls = @ + 1]
           l == ReadSymlink(OsPath("linux", launch), queryOK, heapFree)
       IN  th' = [th EXCEPT ![t] =
                    IF l.ok THEN [r EXCEPT !.pc = "canon", !.raw = l.path]
                    ELSE Raised(r, "linux", l.exc, "query")]
    /\ UNCHANGED <<buffers, mainStatus>>
    /\ EnvUnchanged

\* Line 55, the outer call: return std::filesystem::canonical(...).
LinuxCanonical(t) ==
    /\ "linux" \in ActiveBranches(flags)
    /\ th[t].pc = "canon"
    /\ LET r == [th[t] EXCEPT !.canons = @ + 1, !.seenRemoved = exeRemoved]
           c == CanonicalOf("linux", exeRemoved, heapFree, r.raw)
       IN  th' = [th EXCEPT ![t] =
                    IF c.ok THEN Ended(r, Returned(c.path))
                    ELSE Raised(r, "linux", c.exc, "canon")]
    /\ UNCHANGED <<buffers, mainStatus>>
    /\ EnvUnchanged

\* Lines 63-64: std::vector<char> buffer(PATH_MAX); size = buffer.size().
AppleAlloc(t) ==
    /\ "apple" \in ActiveBranches(flags)
    /\ th[t].pc = "call"
    /\ LET r == Started(t)
       IN  IF CanAlloc(heapFree, PATH_MAX)
           THEN /\ buffers' = [buffers EXCEPT ![BufferOf(t)] = NewBuffer(PATH_MAX)]
                /\ th' = [th EXCEPT ![t] =
                            [r EXCEPT !.pc = "query1", !.size = PATH_MAX,
                                      !.bufLen = PATH_MAX]]
           ELSE /\ th' = [th EXCEPT ![t] = Raised(r, "apple", BadAlloc, "alloc")]
                /\ UNCHANGED buffers
    /\ UNCHANGED mainStatus
    /\ EnvUnchanged

\* Line 65: if (_NSGetExecutablePath(buffer.data(), &size) != 0).
AppleQuery1(t) ==
    /\ "apple" \in ActiveBranches(flags)
    /\ th[t].pc = "query1"
    /\ LET q == NSGetExecutablePath(OsPath("apple", launch), th[t].size, reportMode)
           buf == buffers[BufferOf(t)]
       IN  /\ buffers' = [buffers EXCEPT ![BufferOf(t)] = WriteBuf(buf, q.write)]
           /\ th' = [th EXCEPT ![t] =
                       [@ EXCEPT !.pc = IF q.rc # 0 THEN "resize" ELSE "canon",
                                 !.calls = @ + 1, !.rc = q.rc, !.rc1 = q.rc,
                                 !.size = q.size, !.reported = q.size,
                                 !.oob = @ \/ Overruns(buf, q.write)]]
    /\ UNCHANGED mainStatus
    /\ EnvUnchanged

\* Line 66: buffer.resize(size).
AppleResize(t) ==
    /\ "apple" \in ActiveBranches(flags)
    /\ th[t].pc = "resize"
    /\ LET r == [th[t] EXCEPT !.resizes = @ + 1, !.resizedTo = th[t].size]
       IN  IF CanAlloc(heapFree, th[t].size)
           THEN /\ buffers' = [buffers EXCEPT ![BufferOf(t)] = Resize(@, th[t].size)]
                /\ th' = [th EXCEPT ![t] =
                            [r EXCEPT !.pc = "query2", !.bufLen = th[t].size]]
           ELSE /\ th' = [th EXCEPT ![t] = Raised(r, "apple", BadAlloc, "alloc")]
                /\ buffers' = [buffers EXCEPT ![BufferOf(t)] = NoBuffer]
    /\ UNCHANGED mainStatus
    /\ EnvUnchanged

\* Mutant: a loop that resizes and calls again.
AfterSecondFailureRetry == "retry"

\* The statement after a second failure of _NSGetExecutablePath (line 68).
AfterSecondFailure == "throw"

\* Lines 67-69: the second call, and the throw when it fails too.
AppleQuery2(t) ==
    /\ "apple" \in ActiveBranches(flags)
    /\ th[t].pc = "query2"
    /\ LET q == NSGetExecutablePath(OsPath("apple", launch), th[t].size, reportMode)
           buf == buffers[BufferOf(t)]
           r == [th[t] EXCEPT !.calls = @ + 1, !.rc = q.rc, !.size = q.size,
                              !.oob = @ \/ Overruns(buf, q.write)]
       IN  IF q.rc = 0
           THEN /\ buffers' = [buffers EXCEPT ![BufferOf(t)] = WriteBuf(buf, q.write)]
                /\ th' = [th EXCEPT ![t] = [r EXCEPT !.pc = "canon"]]
           ELSE IF AfterSecondFailure = "throw"
           THEN /\ buffers' = [buffers EXCEPT ![BufferOf(t)] = NoBuffer]
                /\ th' = [th EXCEPT ![t] =
                            Raised(r, "apple", PathMasterError(<<MsgAppleQuery>>), "query")]
           ELSE /\ th' = [th EXCEPT ![t] = [r EXCEPT !.pc = "resize"]]
                /\ UNCHANGED buffers
    /\ UNCHANGED mainStatus
    /\ EnvUnchanged

\* Line 71: return std::filesystem::canonical(buffer.data()).
AppleCanonical(t) ==
    /\ "apple" \in ActiveBranches(flags)
    /\ th[t].pc = "canon"
    /\ LET buf == buffers[BufferOf(t)]
           r == [th[t] EXCEPT !.canons = @ + 1, !.seenRemoved = exeRemoved,
                              !.raw = CStr(buf), !.badRead = Unterminated(buf)]
           c == CanonicalOf("apple", exeRemoved, heapFree, CStr(buf))
       IN  th' = [th EXCEPT ![t] =
                    IF c.ok THEN Ended(r, Returned(c.path))
                    ELSE Raised(r, "apple", c.exc, "canon")]
    /\ buffers' = [buffers EXCEPT ![BufferOf(t)] = NoBuffer]
    /\ UNCHANGED mainStatus
    /\ EnvUnchanged

\* Line 79: std::vector<wchar_t> buffer(32767).
WinAlloc(t) ==
    /\ "win32" \in ActiveBranches(flags)
    /\ th[t].pc = "call"
    /\ LET r == Started(t)
       IN  IF CanAlloc(heapFree, WinBufferLen * WCharBytes)
           THEN /\ buffers' = [buffers EXCEPT ![BufferOf(t)] = NewBuffer(WinBufferLen)]
                /\ th' = [th EXCEPT ![t] =
                            [r EXCEPT !.pc = "query1", !.bufLen = WinBufferLen]]
           ELSE /\ th' = [th EXCEPT ![t] = Raised(r, "win32", BadAlloc, "alloc")]
                /\ UNCHANGED buffers
    /\ UNCHANGED mainStatus
    /\ EnvUnchanged

\* Lines 80-83: size = GetModuleFileNameW(nullptr, buffer.data(),
\* buffer.size()); if (size == 0) throw.
WinQuery(t) ==
    /\ "win32" \in ActiveBranches(flags)
    /\ th[t].pc = "query1"
    /\ LET buf == buffers[BufferOf(t)]
           q == GetModuleFileNameW(OsPath("win32", launch), buf.size, queryOK)
           r == [th[t] EXCEPT !.calls = @ + 1, !.size = q.size, !.reported = q.size,
                              !.oob = @ \/ Overruns(buf, q.write)]
       IN  IF q.size = 0
           THEN /\ buffers' = [buffers EXCEPT ![BufferOf(t)] = NoBuffer]
                /\ th' = [th EXCEPT ![t] =
                            Raised(r, "win32", PathMasterError(<<MsgWinQuery>>), "query")]
           ELSE /\ buffers' = [buffers EXCEPT ![BufferOf(t)] = WriteBuf(buf, q.write)]
                /\ th' = [th EXCEPT ![t] = [r EXCEPT !.pc = "canon"]]
    /\ UNCHANGED mainStatus
    /\ EnvUnchanged

\* Mutant: path(buffer.data(), size - 1).
WinPathArgShort(buf, size) == FirstChars(buf, size - 1)

\* The characters line 84 makes a path of: path(buffer.data(), size).
WinPathArg(buf, size) == FirstChars(buf, size)

\* Line 84: return canonical(std::filesystem::path(buffer.data(), size)).
WinCanonical(t) ==
    /\ "win32" \in ActiveBranches(flags)
    /\ th[t].pc = "canon"
    /\ LET buf == buffers[BufferOf(t)]
           arg == WinPathArg(buf, th[t].size)
           r == [th[t] EXCEPT !.canons = @ + 1, !.seenRemoved = exeRemoved,
                              !.raw = arg, !.badRead = th[t].size > buf.size]
           c == CanonicalOf("win32", exeRemoved, heapFree, arg)
       IN  th' = [th EXCEPT ![t] =
                    IF c.ok THEN Ended(r, Returned(c.path))
                    ELSE Raised(r, "win32", c.exc, "canon")]
    /\ buffers' = [buffers EXCEPT ![BufferOf(t)] = NoBuffer]
    /\ UNCHANGED mainStatus
    /\ EnvUnchanged

\* Line 90: throw PathMasterError("Unsupported platform").
OtherThrow(t) ==
    /\ "other" \in ActiveBranches(flags)
    /\ th[t].pc = "call"
    /\ th' = [th EXCEPT ![t] =
                Ended([Started(t) EXCEPT !.failed = "unsupported"],
                      Threw(PathMasterError(<<MsgUnsupported>>)))]
    /\ UNCHANGED <<buffers, mainStatus>>
    /\ EnvUnchanged

(***************************************************************************)
(* tests/pathmaster_test.cpp: main() calls get_executable_path() once      *)
(* (invocation 1) and returns by the file name of the result.              *)
(***************************************************************************)
\* The value main() returns for the path p.
MainResult(style, p) ==
    IF Filename(style, p) = PathmasterTest THEN 0 ELSE EXIT_FAILURE

MainReturn ==
    /\ mainStatus.state = "running"
    /\ th[1].pc = "done"
    /\ mainStatus' =
         IF th[1].outcome.kind = "returned"
         THEN [state |-> "exited",
               code |-> MainResult(StyleOf(TheBranch), th[1].outcome.value)]
         ELSE [state |-> "terminated", code |-> 0]
    /\ UNCHANGED <<th, buffers>>
    /\ EnvUnchanged

Step(t) ==
    \/ LinuxReadSymlink(t)
    \/ LinuxCanonical(t)
    \/ AppleAlloc(t)
    \/ AppleQuery1(t)
    \/ AppleResize(t)
    \/ AppleQuery2(t)
    \/ AppleCanonical(t)
    \/ WinAlloc(t)
    \/ WinQuery(t)
    \/ WinCanonical(t)
    \/ OtherThrow(t)

Next ==
    \/ FsChange
    \/ QueryChange
    \/ HeapChange
    \/ MainReturn
    \/ \E t \in Threads : Step(t)

Spec == Init /\ [][Next]_vars

(***************************************************************************)
(* get_executable_path() as one sequential run in a fixed environment.     *)
(***************************************************************************)
CanonicalOutcome(b, removed, heap, s) ==
    LET c == CanonicalOf(b, removed, heap, s)
    IN  IF c.ok THEN Returned(c.path) ELSE Threw(Rethrown(b, c.exc))

RunAlone(b, path, mode, removed, qok, heap) ==
    CASE b = "linux" ->
            LET l == ReadSymlink(path, qok, heap)
            IN  IF l.ok THEN CanonicalOutcome(b, removed, heap, l.path)
                ELSE Threw(Rethrown(b, l.exc))
      [] b = "apple" ->
            LET q1 == NSGetExecutablePath(path, PATH_MAX, mode)
                q2 == NSGetExecutablePath(path, q1.size, mode)
            IN  IF ~CanAlloc(heap, PATH_MAX) THEN Threw(Rethrown(b, BadAlloc))
                ELSE IF q1.rc = 0
                THEN CanonicalOutcome(b, removed, heap,
                                      CStr(WriteBuf(NewBuffer(PATH_MAX), q1.write)))
                ELSE IF ~CanAlloc(heap, q1.size) THEN Threw(Rethrown(b, BadAlloc))
                ELSE IF q2.rc # 0
                THEN Threw(Rethrown(b, PathMasterError(<<MsgAppleQuery>>)))
                ELSE CanonicalOutcome(b, removed, heap,
                        CStr(WriteBuf(Resize(NewBuffer(PATH_MAX), q1.size), q2.write)))
      [] b = "win32" ->
            LET q == GetModuleFileNameW(path, WinBufferLen, qok)
            IN  IF ~CanAlloc(heap, WinBufferLen * WCharBytes)
                THEN Threw(Rethrown(b, BadAlloc))
                ELSE IF q.size = 0
                THEN Threw(Rethrown(b, PathMasterError(<<MsgWinQuery>>)))
                ELSE CanonicalOutcome(b, removed, heap,
                        WinPathArg(WriteBuf(NewBuffer(WinBufferLen), q.write), q.size))
      [] b = "other" -> Threw(PathMasterError(<<MsgUnsupported>>))

(***************************************************************************)
(* Properties.                                                             *)
(***************************************************************************)
Done(t) == th[t].pc = "done"

ReturnedBy(t) == th[t].outcome.kind = "returned"

ThrewBy(t) == th[t].outcome.kind = "threw"

ThrewPathMasterError(t) == ThrewBy(t) /\ th[t].outcome.type = "PathMasterError"

TheStyle == StyleOf(TheBranch)

Supported == TheBranch \in {"linux", "apple", "win32"}

\* Whether the canonical path s is a regular file of fs.
IsFileIn(fs, style, s) ==
    LET p == ParsePath(style, s)
    IN  p.abs /\ p.segs \in DOMAIN fs /\ fs[p.segs].type = "file"

\* C1: on the Linux, macOS and Windows branches a returned value is the
\* canonicalization of the OS-reported path in the filesystem of the moment
\* of the call: absolute, without "." or ".." components, an existing file;
\* never the raw, a relative, a non-canonical or the empty path.
C1_ReturnedPathIsCanonical ==
    \A t \in Threads :
        ReturnedBy(t) =>
            LET v == th[t].outcome.value
                fs == Fs(TheStyle, th[t].seenRemoved)
                c == Canonical(fs, TheStyle, ThePath)
            IN  /\ Supported
                /\ c.ok /\ v = c.path
                /\ v # <<>>
                /\ IsAbsolute(TheStyle, v)
                /\ ~HasDotSegments(TheStyle, v)
                /\ IsFileIn(fs, TheStyle, v)

\* A relative OS-reported path with "..", "." and a symbolic link was
\* canonicalized and returned.
C1_Witness ==
    \E t \in Threads :
        /\ ReturnedBy(t)
        /\ ~IsAbsolute(TheStyle, ThePath)
        /\ HasDotSegments(TheStyle, ThePath)
        /\ th[t].outcome.value # ThePath

C3_UnsupportedPlatformAlwaysFails ==
    /\ \A f \in FlagSets : Cardinality(ActiveBranches(f)) = 1
    /\ ~flags.linux /\ ~flags.apple /\ ~flags.win32 =>
         \A t \in Threads :
            /\ th[t].calls = 0 /\ th[t].canons = 0 /\ th[t].resizes = 0
            /\ buffers[t] = NoBuffer
            /\ ~ReturnedBy(t)
            /\ th[t].pc \in {"call", "done"}
            /\ Done(t) =>
                 th[t].outcome = Threw(PathMasterError(<<MsgUnsupported>>))

\* On a build for none of the three platforms an invocation has ended.
C3_Witness ==
    /\ ~flags.linux /\ ~flags.apple /\ ~flags.win32
    /\ \E t \in Threads : Done(t) /\ ThrewPathMasterError(t)

\* Whether invocation t has ended and the OS-reported path and the filesystem
\* have not changed since its first statement.
OsUnchangedSince(t) == Done(t) /\ th[t].os0 = osEpoch

\* Whether invocation t has ended and the heap has not changed since its
\* first statement.
HeapUnchangedSince(t) == Done(t) /\ th[t].heap0 = heapEpoch

\* C4, as stated: two invocations with the OS-reported path and the
\* filesystem unchanged since the first statement of either have the same
\* outcome.
C4_SameOutcomeWhenPathAndFsUnchanged ==
    \A t, u \in Threads :
        OsUnchangedSince(t) /\ OsUnchangedSince(u) => th[t].outcome = th[u].outcome

\* C4, amended: two invocations with the OS-reported path, the filesystem
\* and the heap unchanged since the first statement of either have the same
\* outcome.
C4_SameOutcomeWhenEnvironmentUnchanged ==
    \A t, u \in Threads :
        (/\ OsUnchangedSince(t) /\ OsUnchangedSince(u)
         /\ HeapUnchangedSince(t) /\ HeapUnchangedSince(u))
            => th[t].outcome = th[u].outcome

\* Two invocations, the second started after the first had ended, in one
\* unchanged environment, returned the same path after a buffer resize.
C4_Witness ==
    \E t, u \in Threads :
        /\ t # u
        /\ OsUnchangedSince(t) /\ OsUnchangedSince(u)
        /\ HeapUnchangedSince(t) /\ HeapUnchangedSince(u)
        /\ ReturnedBy(t) /\ ReturnedBy(u)
        /\ th[t].resizes = 1 /\ th[u].resizes = 1
        /\ ~th[t].conc /\ ~th[u].conc
        /\ th[t].outcome.value = th[u].outcome.value

BinaryName(t) == Filename(TheStyle, th[t].outcome.value)

\* C6: the self-test exits with 0 when the resolver succeeds and the binary
\* is named pathmaster_test (pathmaster_test.exe on Windows), and with
\* EXIT_FAILURE when the file name does not match.
C6_SelfTestExitStatus ==
    mainStatus.state = "exited" =>
        LET named == \/ BinaryName(1) = PathmasterTest
                     \/ TheBranch = "win32" /\ BinaryName(1) = PathmasterTestExe
        IN  mainStatus.code = IF named THEN 0 ELSE EXIT_FAILURE

\* C7: on the macOS branch an invocation makes at most two calls of
\* _NSGetExecutablePath and at most one resize; the second call only after a
\* failed first one and the one resize, which takes the size the first call
\* reported; a second failure ends the invocation with the exception, and
\* neither a third call nor a canonicalization follows it.
C7_AtMostTwoCallsOneResize ==
    TheBranch = "apple" =>
        \A t \in Threads :
            /\ th[t].calls <= 2 /\ th[t].resizes <= 1
            /\ th[t].calls = 2 => th[t].rc1 # 0 /\ th[t].resizes = 1
            /\ th[t].resizes = 1 =>
                 /\ th[t].calls >= 1 /\ th[t].rc1 # 0
                 /\ th[t].resizedTo = th[t].reported
                 /\ th[t].reported =
                      NSGetExecutablePath(ThePath, PATH_MAX, reportMode).size
            /\ th[t].calls = 2 /\ th[t].rc # 0 =>
                 Done(t) /\ ThrewPathMasterError(t) /\ th[t].canons = 0
            /\ th[t].canons <= 1
            /\ th[t].canons = 1 => th[t].rc = 0
            /\ th[t].pc = "query2" => th[t].calls = 1 /\ th[t].resizes = 1
            /\ th[t].pc = "resize" => th[t].calls = 1 /\ th[t].resizes = 0

\* The second call failed too and the invocation ended with the exception.
C7_Witness ==
    /\ TheBranch = "apple"
    /\ \E t \in Threads :
          /\ Done(t) /\ th[t].calls = 2 /\ th[t].rc # 0 /\ th[t].resizes = 1
          /\ ThrewPathMasterError(t)

\* The buffer size _NSGetExecutablePath needs for the path.
Needed == Len(ThePath) + 1

\* C8: on the macOS branch, when the PATH_MAX buffer is too small and the OS
\* reports a sufficient size, the retry with the resized buffer succeeds and
\* canonicalization gets the whole OS path; when the OS reports zero or a
\* size too small, the invocation ends with PathMasterError without a
\* canonicalization; no write runs past the end of the buffer and no
\* unterminated or empty buffer is read as a path.
C8_ResizeRetryIsCorrect ==
    TheBranch = "apple" =>
        \A t \in Threads :
            /\ ~th[t].oob /\ ~th[t].badRead
            /\ th[t].calls = 2 /\ th[t].reported >= Needed =>
                 /\ th[t].rc = 0
                 /\ th[t].bufLen = th[t].reported
                 /\ th[t].pc = "canon" => CStr(buffers[t]) = ThePath
            /\ th[t].canons = 1 => th[t].raw = ThePath /\ th[t].raw # <<>>
            /\ Done(t) /\ th[t].rc1 # 0 /\ th[t].reported < Needed =>
                 ThrewPathMasterError(t) /\ th[t].canons = 0

\* The PATH_MAX buffer was too small, the retry succeeded and the whole
\* path, longer than PATH_MAX, came back.
C8_Witness ==
    /\ TheBranch = "apple"
    /\ \E t \in Threads :
          /\ ReturnedBy(t) /\ th[t].calls = 2 /\ th[t].rc1 # 0
          /\ th[t].raw = ThePath /\ Len(ThePath) > PATH_MAX
          /\ th[t].outcome.value = ThePath

QueryMessages == {MsgLinux, MsgAppleQuery, MsgWinQuery}

CanonMessages == {MsgAppleCanon, MsgWinCanon}

\* C9: the message of a raised PathMasterError names the step that failed:
\* the OS query and not canonicalization when the OS query failed,
\* canonicalization when canonicalization failed.
C9_MessageNamesFailedStep ==
    \A t \in Threads :
        ThrewBy(t) =>
            /\ th[t].failed = "query" =>
                 /\ Range(th[t].outcome.what) \cap QueryMessages # {}
                 /\ Range(th[t].outcome.what) \cap CanonMessages = {}
            /\ th[t].failed = "canon" =>
                 Range(th[t].outcome.what) \cap CanonMessages # {}

\* What GetModuleFileNameW writes and returns for the process.
WinAnswer == GetModuleFileNameW(ThePath, WinBufferLen, TRUE)

\* C10: on the Windows branch GetModuleFileNameW is called once, with a
\* buffer of 32767 characters, and never again; a result of 0 ends the
\* invocation with PathMasterError without a canonicalization; a result of
\* n is followed by the canonicalization of the first n characters the API
\* wrote, and a failure of it ends the invocation with PathMasterError.
C10_WindowsSingleCall ==
    TheBranch = "win32" =>
        \A t \in Threads :
            /\ th[t].calls <= 1 /\ th[t].resizes = 0
            /\ th[t].calls = 1 => th[t].bufLen = 32767 /\ th[t].bufLen = WinBufferLen
            /\ th[t].pc \in {"canon", "done"} /\ th[t].failed # "alloc" =>
                 th[t].calls = 1
            /\ th[t].calls = 1 /\ th[t].size = 0 =>
                 Done(t) /\ ThrewPathMasterError(t) /\ th[t].canons = 0
            /\ th[t].canons = 1 =>
                 /\ th[t].size # 0
                 /\ Len(th[t].raw) = th[t].size
                 /\ th[t].raw = SubSeq(WinAnswer.write, 1, th[t].size)
                 /\ ~th[t].oob /\ ~th[t].badRead
            /\ Done(t) /\ th[t].failed = "canon" => ThrewPathMasterError(t)
            /\ ReturnedBy(t) =>
                 th[t].outcome.value =
                    Canonical(Fs("windows", th[t].seenRemoved), "windows",
                              SubSeq(WinAnswer.write, 1, WinAnswer.size)).path

\* A non-zero result was canonicalized and returned after one call.
C10_Witness ==
    /\ TheBranch = "win32"
    /\ \E t \in Threads :
          /\ ReturnedBy(t) /\ th[t].calls = 1 /\ th[t].size = Len(ThePath)
          /\ th[t].raw # th[t].outcome.value

====
